---- MODULE Spec2Model ----
(***************************************************************************)
(* Model of generate_feed.py: the link extraction, canonicalization and    *)
(* deduplication pipeline of the medicine-subreddit news feed.             *)
(*                                                                         *)
(* Python str values are TLA+ strings; TLC evaluates Len, \o and SubSeq on *)
(* them, so the URL helpers below work character by character, as the      *)
(* Python library code does.  Characters are printable ASCII (32..126);    *)
(* the backquote (96) cannot be written in a TLA+ string, so its slot in   *)
(* the table holds a tab, which no input contains.                         *)
(***************************************************************************)
EXTENDS Integers, Sequences, FiniteSets, TLC

(***************************************************************************)
(* Bounds of the model.  MAX_ITEMS and POST_LIMIT are the program's        *)
(* configuration values (250 and 50 in generate_feed.py) scaled down so    *)
(* that the cap and the soft guardrail are reached.                        *)
(***************************************************************************)
NumSubs == 2
POST_LIMIT == 2
MAX_ITEMS == 2
MaxTime == 3

None == "<None>"

(***************************************************************************)
(* str primitives                                                          *)
(***************************************************************************)
Ascii == " !\"#$%&'()*+,-./0123456789:;<=>?@ABCDEFGHIJKLMNOPQRSTUVWXYZ[\\]^_\tabcdefghijklmnopqrstuvwxyz{|}~"

HexDigits == "0123456789ABCDEF"

\* s[a-1:b] of Python: positions outside the string are cut off
Slice(s, a, b) ==
    LET lo == IF a < 1 THEN 1 ELSE a
        hi == IF b > Len(s) THEN Len(s) ELSE b
    IN  IF lo > hi THEN "" ELSE SubSeq(s, lo, hi)

Ch(s, i) == Slice(s, i, i)

Chars(s) == {Ch(s, i) : i \in 1..Len(s)}

OrdMap == [c \in Chars(Ascii) |-> 31 + CHOOSE i \in 1..Len(Ascii) : Ch(Ascii, i) = c]

Ord(c) == OrdMap[c]

Chr(n) == Ch(Ascii, n - 31)

SetMin(S) == CHOOSE x \in S : \A y \in S : x <= y

SetMax(S) == CHOOSE x \in S : \A y \in S : y <= x

MinOrZero(I) == IF I = {} THEN 0 ELSE SetMin(I)

MaxOrZero(I) == IF I = {} THEN 0 ELSE SetMax(I)

\* s.find(sub, start) with 1-based positions; 0 when sub does not occur
Find(s, sub, start) ==
    MinOrZero({i \in start..(Len(s) - Len(sub) + 1) : Slice(s, i, i + Len(sub) - 1) = sub})

\* s.rfind(sub); 0 when sub does not occur
RFind(s, sub) ==
    MaxOrZero({i \in 1..(Len(s) - Len(sub) + 1) : Slice(s, i, i + Len(sub) - 1) = sub})

Contains(s, sub) == Find(s, sub, 1) # 0

StartsWith(s, pre) == Len(pre) <= Len(s) /\ Slice(s, 1, Len(pre)) = pre

EndsWith(s, suf) == Len(suf) <= Len(s) /\ Slice(s, Len(s) - Len(suf) + 1, Len(s)) = suf

RECURSIVE RStrip(_, _)
\* s.rstrip(chars)
RStrip(s, chars) ==
    IF s # "" /\ Ch(s, Len(s)) \in chars THEN RStrip(Slice(s, 1, Len(s) - 1), chars) ELSE s

RECURSIVE LStrip(_, _)
\* s.lstrip(chars)
LStrip(s, chars) ==
    IF s # "" /\ Ch(s, 1) \in chars THEN LStrip(Slice(s, 2, Len(s)), chars) ELSE s

\* s.strip(chars)
Strip(s, chars) == LStrip(RStrip(s, chars), chars)

\* The whitespace of the model's alphabet (str.strip() with no argument)
Whitespace == {" "}

RECURSIVE MapChars(_, _)
\* "".join(f[c] for c in s), f a function on characters
MapChars(f, s) ==
    IF s = "" THEN ""
    ELSE IF Len(s) = 1 THEN f[s]
    ELSE MapChars(f, Slice(s, 1, Len(s) \div 2)) \o MapChars(f, Slice(s, (Len(s) \div 2) + 1, Len(s)))

\* The lower-case letter of the upper-case letter at position k of the
\* alphabet A..Z (0: c is not an upper-case letter)
LowerAt(c, k) == IF k = 0 THEN c ELSE Ch("abcdefghijklmnopqrstuvwxyz", k)

LowerMap == [c \in Chars(Ascii) |-> LowerAt(c, Find("ABCDEFGHIJKLMNOPQRSTUVWXYZ", c, 1))]

\* s.lower()
Lower(s) == MapChars(LowerMap, s)

RECURSIVE Split(_, _)
\* s.split(sep), i the first position of sep in s (0: none)
SplitAt(s, sep, i) ==
    IF i = 0 THEN <<s>>
    ELSE <<Slice(s, 1, i - 1)>> \o Split(Slice(s, i + Len(sep), Len(s)), sep)

\* s.split(sep)
Split(s, sep) == SplitAt(s, sep, Find(s, sep, 1))

Split1At(s, sep, i) ==
    IF i = 0 THEN <<s>>
    ELSE <<Slice(s, 1, i - 1), Slice(s, i + Len(sep), Len(s))>>

\* s.split(sep, 1)
Split1(s, sep) == Split1At(s, sep, Find(s, sep, 1))

RECURSIVE Join(_, _)
\* sep.join(parts)
Join(sep, parts) ==
    IF parts = <<>> THEN ""
    ELSE IF Len(parts) = 1 THEN parts[1]
    ELSE parts[1] \o sep \o Join(sep, Tail(parts))

RECURSIVE Replace(_, _, _)
\* s.replace(old, new), i the first position of old in s (0: none)
ReplaceAt(s, old, new, i) ==
    IF i = 0 THEN s
    ELSE Slice(s, 1, i - 1) \o new \o Replace(Slice(s, i + Len(old), Len(s)), old, new)

\* s.replace(old, new)
Replace(s, old, new) == ReplaceAt(s, old, new, Find(s, old, 1))

(***************************************************************************)
(* urllib.parse, as far as normalize_url and the classifiers use it        *)
(***************************************************************************)
\* The value of the hex digit at position k of "0123456789ABCDEFabcdef" (0: not a digit)
HexAt(k) == IF k = 0 THEN -1 ELSE IF k <= 16 THEN k - 1 ELSE k - 7

\* The value of the hex digit c, -1 when c is not one
HexVal(c) == IF c = "" THEN -1 ELSE HexAt(Find(HexDigits \o "abcdef", c, 1))

RECURSIVE unquote(_)
\* unquote(s), the first "%" of s being at position i and followed by
\* characters of hex values hi and lo
unquote_hex(s, i, hi, lo) ==
    IF i + 2 <= Len(s) /\ hi >= 0 /\ lo >= 0 /\ 16 * hi + lo \in 32..126
    THEN Slice(s, 1, i - 1) \o Chr(16 * hi + lo) \o unquote(Slice(s, i + 3, Len(s)))
    ELSE Slice(s, 1, i) \o unquote(Slice(s, i + 1, Len(s)))

\* unquote(s), i the first position of "%" in s (0: none)
unquote_at(s, i) ==
    IF i = 0 THEN s ELSE unquote_hex(s, i, HexVal(Ch(s, i + 1)), HexVal(Ch(s, i + 2)))

\* urllib.parse.unquote: %XX becomes the character of that code; a "%" not
\* followed by two hex digits is kept.  Codes outside 32..126 are outside
\* the model's alphabet and are kept as written.
unquote(s) == unquote_at(s, Find(s, "%", 1))

\* urllib.parse._ALWAYS_SAFE
AlwaysSafe == Chars("ABCDEFGHIJKLMNOPQRSTUVWXYZabcdefghijklmnopqrstuvwxyz0123456789_.-~")

QuotePlusMap ==
    [c \in Chars(Ascii) |->
        IF c \in AlwaysSafe THEN c
        ELSE IF c = " " THEN "+"
        ELSE "%" \o Ch(HexDigits, (Ord(c) \div 16) + 1) \o Ch(HexDigits, (Ord(c) % 16) + 1)]

\* urllib.parse.quote_plus(s) with safe=''
quote_plus(s) == MapChars(QuotePlusMap, s)

\* One name=value field of a query string, split at its first "="
ParseField(nv) ==
    [k \in 1..2 |-> IF k <= Len(nv) THEN unquote(Replace(nv[k], "+", " ")) ELSE ""]

RECURSIVE ParseFields(_)
ParseFields(args) ==
    IF args = <<>> THEN <<>>
    ELSE IF Head(args) = "" THEN ParseFields(Tail(args))
    ELSE <<ParseField(Split1(Head(args), "="))>> \o ParseFields(Tail(args))

\* urllib.parse.parse_qsl(qs, keep_blank_values=True)
parse_qsl_keep_blank(qs) == IF qs = "" THEN <<>> ELSE ParseFields(Split(qs, "&"))

\* urllib.parse.parse_qsl(qs): fields with a blank value are dropped
parse_qsl(qs) == SelectSeq(parse_qsl_keep_blank(qs), LAMBDA kv : kv[2] # "")

\* urllib.parse.urlencode(q)
urlencode(q) == Join("&", [i \in 1..Len(q) |-> quote_plus(q[i][1]) \o "=" \o quote_plus(q[i][2])])

SchemeChars == Chars("abcdefghijklmnopqrstuvwxyzABCDEFGHIJKLMNOPQRSTUVWXYZ0123456789+-.")

Letters == Chars("abcdefghijklmnopqrstuvwxyzABCDEFGHIJKLMNOPQRSTUVWXYZ")

UsesParams == {"", "ftp", "hdl", "prospero", "http", "imap", "https", "shttp", "rtsp", "rtsps", "rtspu", "sip", "sips", "mms", "sftp", "tel"}

UsesNetloc == {"", "ftp", "http", "gopher", "nntp", "telnet", "imap", "wais", "file", "mms", "https", "shttp", "snews", "prospero", "rtsp", "rtsps", "rtspu", "rsync", "svn", "svn+ssh", "sftp", "nfs", "git", "git+ssh", "ws", "wss"}

\* The result of urlparse; err stands for the ValueError ("Invalid IPv6
\* URL") that urlsplit raises on an unbalanced bracket in the netloc.
ParseResult(scheme, netloc, path, params, query, fragment) ==
    [err |-> Contains(netloc, "[") # Contains(netloc, "]"),
     scheme |-> scheme, netloc |-> netloc, path |-> path,
     params |-> params, query |-> query, fragment |-> fragment]

\* url[:k-1] when k is a position of url, url when k = 0
Before(url, k) == IF k # 0 THEN Slice(url, 1, k - 1) ELSE url

\* url[k:] when k is a position of url, "" when k = 0
After(url, k) == IF k # 0 THEN Slice(url, k + 1, Len(url)) ELSE ""

\* urllib.parse._splitparams(url), semi the position of the first ";" of
\* the last path segment (0: none); only the schemes of uses_params have params
splitparams(scheme, netloc, url, query, fragment, semi) ==
    ParseResult(scheme, netloc,
                Before(url, IF scheme \in UsesParams THEN semi ELSE 0),
                After(url, IF scheme \in UsesParams THEN semi ELSE 0),
                query, fragment)

\* urlparse after urlsplit: the params are split off the last path segment
urlparse_params(scheme, netloc, url, query, fragment) ==
    splitparams(scheme, netloc, url, query, fragment,
                Find(url, ";", SetMax({1, RFind(url, "/")})))

\* urlsplit: the query is split off at the first "?" (position q, 0: none)
urlsplit_query(scheme, netloc, url, fragment, q) ==
    urlparse_params(scheme, netloc, Before(url, q), After(url, q), fragment)

\* urlsplit: the fragment is split off at the first "#" (position f, 0: none)
urlsplit_fragment(scheme, netloc, url, f) ==
    urlsplit_query(scheme, netloc, Before(url, f), After(url, f),
                   Find(Before(url, f), "?", 1))

\* urllib.parse._splitnetloc(url, 2) when the rest starts with "//": the
\* netloc ends before position delim
splitnetloc(scheme, url, hasNetloc, delim) ==
    urlsplit_fragment(scheme,
                      IF hasNetloc THEN Slice(url, 3, delim - 1) ELSE "",
                      IF hasNetloc THEN Slice(url, delim, Len(url)) ELSE url,
                      Find(IF hasNetloc THEN Slice(url, delim, Len(url)) ELSE url, "#", 1))

\* urlsplit after the scheme is split off; the netloc ends at the first of
\* "/", "?" and "#", or with the string
urlsplit_netloc(scheme, url) ==
    splitnetloc(scheme, url, Slice(url, 1, 2) = "//",
                SetMin({Len(url) + 1} \cup ({Find(url, c, 3) : c \in {"/", "?", "#"}} \ {0})))

\* urlsplit: the scheme is what precedes the first ":" (position i, 0: none)
\* when it starts with a letter and holds scheme characters only
urlsplit_scheme(url, hasScheme, i) ==
    urlsplit_netloc(IF hasScheme THEN Lower(Slice(url, 1, i - 1)) ELSE "",
                    IF hasScheme THEN Slice(url, i + 1, Len(url)) ELSE url)

urlsplit_colon(url, i) ==
    urlsplit_scheme(url,
                    i > 1 /\ Ch(url, 1) \in Letters /\ \A k \in 1..(i - 1) : Ch(url, k) \in SchemeChars,
                    i)

\* urlsplit after the leading whitespace is stripped
urlsplit(url) == urlsplit_colon(url, Find(url, ":", 1))

\* urllib.parse.urlparse(url)
urlparse(url0) == urlsplit(LStrip(url0, Whitespace))

\* urlunsplit: "//" and the netloc are put before the path
urlunsplit_netloc(scheme, netloc, url) ==
    IF netloc # "" \/ (scheme # "" /\ scheme \in UsesNetloc /\ Slice(url, 1, 2) # "//")
    THEN "//" \o netloc \o (IF url # "" /\ Ch(url, 1) # "/" THEN "/" \o url ELSE url)
    ELSE url

urlunsplit_scheme(scheme, url) == IF scheme # "" THEN scheme \o ":" \o url ELSE url

urlunsplit_query(query, url) == IF query # "" THEN url \o "?" \o query ELSE url

urlunsplit_fragment(fragment, url) == IF fragment # "" THEN url \o "#" \o fragment ELSE url

\* ParseResult.geturl(): urlunparse, then urlunsplit
geturl(p) ==
    urlunsplit_fragment(p.fragment,
        urlunsplit_query(p.query,
            urlunsplit_scheme(p.scheme,
                urlunsplit_netloc(p.scheme, p.netloc,
                    IF p.params # "" THEN p.path \o ";" \o p.params ELSE p.path))))

(***************************************************************************)
(* Configuration                                                           *)
(***************************************************************************)
SUBREDDITS == <<"medicine", "emergencymedicine", "FamilyMedicine", "InternalMedicine", "criticalcare", "Psychiatry", "Anesthesiology", "Radiology", "neurology", "ophthalmology">>

DROP_QUERY_KEYS == {"utm_source", "utm_medium", "utm_campaign", "utm_term", "utm_content", "gclid", "fbclid", "mc_cid", "mc_eid"}

REDDIT_HOSTS == {"reddit.com", "www.reddit.com", "old.reddit.com", "redd.it", "i.redd.it", "v.redd.it", "preview.redd.it", "external-preview.redd.it", "redditmedia.com", "www.redditmedia.com", "b.thumbs.redditmedia.com"}

BLOCKED_HOST_SUFFIXES == {"youtube.com", "youtu.be", "tiktok.com", "instagram.com", "x.com", "twitter.com", "facebook.com", "fb.com", "discord.gg", "discord.com", "docs.google.com", "drive.google.com", "forms.gle"}

BLOCKED_EXTENSIONS == {".jpg", ".jpeg", ".png", ".gif", ".webp", ".svg", ".mp4", ".mov", ".m4v", ".avi", ".pdf", ".ppt", ".pptx", ".doc", ".docx", ".xls", ".xlsx", ".zip", ".rar", ".7z"}

JUNK_TITLE_PATTERNS == {"just a moment", "checking your browser", "verify you are human", "access denied", "permission denied", "request blocked", "service unavailable", "temporarily unavailable", "enable javascript", "cookies are required", "consent", "subscribe to continue", "sign in to continue"}

(***************************************************************************)
(* URL helpers                                                             *)
(***************************************************************************)
TrailingPunct == {")", ".", ",", "]", ">", "\"", "'"}

\* The body of normalize_url once raw is parsed into p
normalize_parsed(raw, p) ==
    IF p.err THEN raw
    ELSE IF p.scheme = "" \/ p.netloc = "" THEN raw
    ELSE geturl([p EXCEPT
                   !.scheme = IF @ \in {"http", "https"} THEN "https" ELSE @,
                   !.query = urlencode(SelectSeq(parse_qsl_keep_blank(@),
                                                 LAMBDA kv : kv[1] \notin DROP_QUERY_KEYS))])

\* normalize_url after raw.strip().rstrip(').,]>"\'')
normalize_stripped(raw) == normalize_parsed(raw, urlparse(raw))

normalize_url(raw0) == normalize_stripped(RStrip(Strip(raw0, Whitespace), TrailingPunct))

is_reddit_netloc(host) == host \in REDDIT_HOSTS \/ EndsWith(host, ".reddit.com")

is_reddit_parsed(p) == IF p.err THEN FALSE ELSE is_reddit_netloc(Lower(p.netloc))

is_reddit_host(url) == is_reddit_parsed(urlparse(url))

\* qs.get("url") for qs = dict(parse_qsl(..)): the dict keeps the last value
\* of a repeated name, at position k of the list (0: absent); parse_qsl has
\* already dropped the blank values, so the value is non-empty when present.
unwrap_qs(url, qs, k) == IF k = 0 THEN url ELSE normalize_url(unquote(qs[k][2]))

\* qs = the list parse_qsl(p.query)
unwrap_query(url, qs) == unwrap_qs(url, qs, MaxOrZero({i \in 1..Len(qs) : qs[i][1] = "url"}))

unwrap_parsed(url, p) ==
    IF p.err THEN url
    ELSE IF EndsWith(Lower(p.netloc), "reddit.com") /\ p.path = "/media"
    THEN unwrap_query(url, parse_qsl(p.query))
    ELSE url

unwrap_reddit_media(url) == unwrap_parsed(url, urlparse(url))

looks_like_host_path(url, host, path) ==
    IF is_reddit_host(url) THEN FALSE
    ELSE IF \E suf \in BLOCKED_HOST_SUFFIXES : host = suf \/ EndsWith(host, "." \o suf) THEN FALSE
    ELSE IF \E ext \in BLOCKED_EXTENSIONS : EndsWith(path, ext) THEN FALSE
    ELSE TRUE

looks_like_parsed(url, p) ==
    IF p.err THEN FALSE
    ELSE IF p.scheme \notin {"http", "https"} THEN FALSE
    ELSE looks_like_host_path(url, Lower(p.netloc), Lower(p.path))

looks_like_news_or_blog_url(url) == looks_like_parsed(url, urlparse(url))

\* u[:-1] if u.endswith("/") else u
strip_last_slash(u) == IF EndsWith(u, "/") THEN Slice(u, 1, Len(u) - 1) ELSE u

canonical_key(url) == strip_last_slash(normalize_url(url))

(***************************************************************************)
(* html.unescape and the regular expressions of the module, on the model's *)
(* alphabet.                                                               *)
(***************************************************************************)
\* The character references the inputs use; html.unescape accepts these
\* with or without the closing semicolon.
Entities == {<<"&amp", "&">>, <<"&lt", "<">>, <<"&gt", ">">>, <<"&quot", "\"">>, <<"&#39", "'">>}

RECURSIVE html_unescape(_)
\* The length of the reference to e at the head of t, with its ";" if present
RefLen(t, e) == IF Ch(t, Len(e[1]) + 1) = ";" THEN Len(e[1]) + 1 ELSE Len(e[1])

\* t, the rest of s from its first "&" at position i, starts with a reference to e
unescape_entity(s, i, t, e) ==
    Slice(s, 1, i - 1) \o e[2] \o html_unescape(Slice(t, RefLen(t, e) + 1, Len(t)))

\* E: the references t starts with
unescape_ref(s, i, t, E) ==
    IF E # {} THEN unescape_entity(s, i, t, CHOOSE x \in E : TRUE)
    ELSE Slice(s, 1, i) \o html_unescape(Slice(t, 2, Len(t)))

\* html.unescape(s), i the first position of "&" in s (0: none)
unescape_at(s, i) ==
    IF i = 0 THEN s
    ELSE unescape_ref(s, i, Slice(s, i, Len(s)),
                      {x \in Entities : StartsWith(Slice(s, i, Len(s)), x[1])})

\* html.unescape(s): one left-to-right pass, a replacement is not rescanned
html_unescape(s) == unescape_at(s, Find(s, "&", 1))

\* Length of the match of https?:// at the head of t, or 0
HttpPrefixOf(t) ==
    IF t = "https://" THEN 8
    ELSE IF Slice(t, 1, 7) = "http://" THEN 7
    ELSE 0

\* Length of the match of https?:// at position i of s (re.IGNORECASE), or 0
HttpPrefixLen(s, i) ==
    IF Ch(s, i) \notin {"h", "H"} THEN 0 ELSE HttpPrefixOf(Lower(Slice(s, i, i + 7)))

\* c is the closing quote of the URL if at least one character precedes it
HrefQuote(from, c) == IF c > from THEN c ELSE 0

\* The URL of an href starts at position u of s with a prefix of length k
HrefUrl(s, u, k) == IF k = 0 THEN 0 ELSE HrefQuote(u + k, Find(s, "\"", u + k))

\* Position of the closing quote of a match of HREF_RE that starts at
\* position i of s, or 0: href="(https?://[^"]+)"
HrefEnd(s, i) ==
    IF Ch(s, i) \in {"h", "H"} /\ Lower(Slice(s, i, i + 5)) = "href=\""
    THEN HrefUrl(s, i + 6, HttpPrefixLen(s, i + 6))
    ELSE 0

RECURSIVE HrefFindAll(_, _)
\* The match at position j of s, whose closing quote is at c, and the later ones
HrefTake(s, j, c) == <<Slice(s, j + 6, c - 1)>> \o HrefFindAll(s, c + 1)

\* The matches from the first one, at position j of s (0: none)
HrefFrom(s, j) == IF j = 0 THEN <<>> ELSE HrefTake(s, j, HrefEnd(s, j))

\* HREF_RE.findall(s), scanning from position i
HrefFindAll(s, i) == HrefFrom(s, MinOrZero({j \in i..Len(s) : HrefEnd(s, j) # 0}))

\* The characters that end a match of URL_RE_FALLBACK: \s, <, > and "
UrlStop == {" ", "\t", "\n", "\r", "<", ">", "\""}

\* The match runs from position `from` of s up to the character before the
\* first stop character at position stop (0: up to the end of s)
UrlLast(s, from, stop) ==
    IF stop = 0 THEN (IF Len(s) >= from THEN Len(s) ELSE 0)
    ELSE IF stop - 1 >= from THEN stop - 1 ELSE 0

\* A match at position i of s has a prefix of length k
UrlAfterPrefix(s, i, k) ==
    IF k = 0 THEN 0
    ELSE UrlLast(s, i + k, MinOrZero({j \in (i + k)..Len(s) : Ch(s, j) \in UrlStop}))

\* Position of the last character of a match of URL_RE_FALLBACK that starts
\* at position i of s, or 0: https?://[^\s<>"]+
UrlEnd(s, i) == UrlAfterPrefix(s, i, HttpPrefixLen(s, i))

RECURSIVE UrlFindAll(_, _)
\* The match at positions j..e of s and the later ones
UrlTake(s, j, e) == <<Slice(s, j, e)>> \o UrlFindAll(s, e + 1)

\* The matches from the first one, at position j of s (0: none)
UrlFrom(s, j) == IF j = 0 THEN <<>> ELSE UrlTake(s, j, UrlEnd(s, j))

\* URL_RE_FALLBACK.findall(s), scanning from position i
UrlFindAll(s, i) == UrlFrom(s, MinOrZero({j \in i..Len(s) : UrlEnd(s, j) # 0}))

Range(f) == {f[i] : i \in DOMAIN f}

(***************************************************************************)
(* Reddit RSS                                                              *)
(***************************************************************************)
\* One candidate of either loop of extract_external_links
Candidate(m) == normalize_url(unwrap_reddit_media(html_unescape(m)))

\* The candidates kept of the matches of one of the two patterns
KeptCandidates(matches) == {u \in {Candidate(m) : m \in matches} : looks_like_news_or_blog_url(u)}

\* links[1]: the set after the loop over the href matches; links[2]: the set
\* the loop over the fallback matches fills when that one is empty
LinksOrFallback(links) == IF links[1] # {} THEN links[1] ELSE links[2]

\* The matches of HREF_RE (k = 1) and of URL_RE_FALLBACK (k = 2) in summary
Matches(summary, k) ==
    IF k = 1 THEN Range(HrefFindAll(summary, 1)) ELSE Range(UrlFindAll(summary, 1))

\* extract_external_links(entry): the set `links`
extract_external_links(summary) ==
    LinksOrFallback([k \in {1, 2} |-> KeptCandidates(Matches(summary, k))])

(***************************************************************************)
(* Title fetching and canonicalization                                     *)
(***************************************************************************)
RECURSIVE CollapseSpace(_)
\* re.sub(r"\s+", " ", t)
CollapseSpace(t) ==
    IF t = "" THEN ""
    ELSE IF Ch(t, 1) \in {" ", "\t", "\n", "\r"}
         THEN " " \o CollapseSpace(LStrip(t, {" ", "\t", "\n", "\r"}))
         ELSE Ch(t, 1) \o CollapseSpace(Slice(t, 2, Len(t)))

clean_title(t0) ==
    Strip(Strip(CollapseSpace(html_unescape(IF t0 = None THEN "" ELSE t0)), Whitespace),
          {" ", "\t", "\r", "\n", "-", "|"})

\* A junk pattern occurs in t
ContainsJunk(t) == \E pat \in JUNK_TITLE_PATTERNS : Contains(t, pat)

JunkTitleCaseSensitive(title) == ContainsJunk(title)

\* JUNK_TITLE_RE.search(title) with re.IGNORECASE
JunkTitle(title) == ContainsJunk(Lower(title))

\* `not title` for a title that is None or a str
NoTitle(t) == t = None \/ t = ""

RECURSIVE OrTitle(_, _)
\* The title after the patterns whose matches are `matches` (None: no match)
\* are tried in turn: a pattern is tried `if not title`
OrTitle(title, matches) ==
    IF matches = <<>> THEN title
    ELSE OrTitle(IF NoTitle(title) /\ Head(matches) # None THEN clean_title(Head(matches)) ELSE title,
                 Tail(matches))

\* The checks of the content type and of the title, and the result
CheckedTitle(final_url, ctype, title) ==
    IF ctype # "" /\ ~Contains(ctype, "text/html") THEN <<None, final_url>>
    ELSE IF NoTitle(title) THEN <<None, final_url>>
    ELSE IF Len(title) < 12 THEN <<None, final_url>>
    ELSE IF JunkTitle(title) THEN <<None, final_url>>
    ELSE <<title, final_url>>

\* fetch_page_title_and_final_url(url) when the GET sent for url is answered
\* by resp.  resp.kind is "timeout" (requests.get raises), "http_error"
\* (raise_for_status raises) or "ok"; resp.url is r.url after redirects,
\* resp.ctype the Content-Type header ("" when absent), and resp.og, resp.tw,
\* resp.tt are group 1 of the first match of OG_TITLE_RE, TW_TITLE_RE and
\* TITLE_TAG_RE in the first 200000 characters of the body (None: no match).
\* The result is <<title, final_url>>.
fetch_page_title_and_final_url(url, resp) ==
    IF resp.kind # "ok" THEN <<None, url>>
    ELSE CheckedTitle(normalize_url(resp.url), Lower(resp.ctype),
                      OrTitle(None, <<resp.og, resp.tw, resp.tt>>))

RECURSIVE Digest(_, _)
Digest(h, s) ==
    IF s = "" THEN h ELSE Digest((h * 31 + Ord(Ch(s, 1))) % 65536, Slice(s, 2, Len(s)))

\* hashlib.sha256(key.encode()).hexdigest(): SHA-256 is stood for by a
\* 16-bit polynomial digest of the key's characters; like the real digest it
\* is a function of the bytes of its argument and of nothing else.
sha256_hexdigest(key) == Digest(7, key)

(***************************************************************************)
(* The world of one run: what the listing of each source holds and how the *)
(* web answers the title fetch of each candidate.  An entry is what        *)
(* feedparser exposes of a post: title (None: attribute absent), link,     *)
(* published (0: absent or unparseable date, else the parsed time) and     *)
(* summary.                                                                *)
(***************************************************************************)
P1 == [title |-> "New sepsis trial", link |-> "https://redd.it/p1", published |-> 2,
       summary |-> "<a href=\"https://news.example/a/?utm_source=reddit&amp;utm_medium=social\">[link]</a> <a href=\"https://www.reddit.com/r/medicine/comments/p1\">[comments]</a>"]

P2 == [title |-> None, link |-> "https://redd.it/p2", published |-> 3,
       summary |-> "<a href=\"https://www.reddit.com/media?url=https%3A%2F%2Fnews.example%2Fb\">b</a> <a href=\"https://sho.rt/r\">r</a>"]

P3 == [title |-> "Same trial again", link |-> "https://redd.it/p3", published |-> 1,
       summary |-> "Read http://news.example/a. Mirror: https://i.redd.it/x.png"]

Q1 == [title |-> "Trial and cohort", link |-> "https://redd.it/q1", published |-> 3,
       summary |-> "<a href=\"http://news.example/a\">a</a> <a HREF=\"https://news.example/a/?id=7\">seven</a>"]

Q2 == [title |-> "Cohort, guideline", link |-> "https://redd.it/q2", published |-> 0,
       summary |-> "<a href=\"https://news.example/a?id=7&amp;fbclid=1\">7</a> <a href=\"https://m.youtube.com/watch?v=1\">v</a> <a href=\"https://news.example/b\">b</a> <a href=\"https://news.example/c.pdf\">c</a>"]

R1 == [title |-> "Guideline", link |-> "https://redd.it/r1", published |-> 2,
       summary |-> "<a href=\"https://news.example/b\">b</a>"]

\* The listings the feed of source number i can hold when it is fetched
Feeds(i) ==
    CASE i = 1 -> {<<P1, P2, P3>>, <<P2, P1, P3>>}
      [] i = 2 -> {<<Q1, Q2>>}
      [] i = 3 -> {<<R1>>}
      [] OTHER -> {<<>>}

Timeout == [kind |-> "timeout", url |-> "", ctype |-> "", og |-> None, tw |-> None, tt |-> None]

HttpError == [kind |-> "http_error", url |-> "", ctype |-> "", og |-> None, tw |-> None, tt |-> None]

Page(url, ctype, og, tw, tt) == [kind |-> "ok", url |-> url, ctype |-> ctype, og |-> og, tw |-> tw, tt |-> tt]

\* The answers the GET of a candidate URL can get
Web(url) ==
    CASE url = "https://news.example/a/" ->
            {Timeout,
             Page("https://news.example/a/", "text/html; charset=utf-8", "Sepsis trial results &amp; analysis", None, "x")}
      [] url = "https://news.example/a" ->
            {HttpError,
             Page("https://news.example/a/?utm_campaign=rss", "text/html", None, None, " Sepsis trial   results -  Example News | ")}
      [] url = "https://news.example/b" ->
            {Page("https://news.example/b", "text/html", None, None, "Just a moment..."),
             Page("https://news.example/b", "", None, "Updated sepsis guideline", None)}
      [] url = "https://sho.rt/r" ->
            {Page("https://sho.rt/r", "application/pdf", None, None, None),
             Page("https://www.reddit.com/r/x/", "text/html", None, None, "Discussion thread : medicine")}
      [] url = "https://news.example/a/?id=7" ->
            {Timeout,
             Page("https://news.example/a/?id=7", "TEXT/HTML", "", None, "Cohort study, part seven")}
      [] url = "https://news.example/a?id=7" ->
            {Page("https://news.example/a?id=7", "text/html", "Short", None, "Cohort study, part seven"),
             Page("https://news.example/a?id=7", "text/html", None, None, "Cohort study, part seven")}
      [] OTHER -> {Timeout}

\* The URLs the web of the model serves
WebSites == {"https://news.example/a/", "https://news.example/a", "https://news.example/b",
             "https://sho.rt/r", "https://news.example/a/?id=7", "https://news.example/a?id=7"}

\* The values datetime.now(timezone.utc) can take, on the scale of the posts' times
Times == 1..MaxTime

AllEntries == UNION {Range(feed) : feed \in UNION {Feeds(i) : i \in 1..Len(SUBREDDITS)}}

\* outbound_links of every entry of the world, computed once
OutboundLinks == [e \in AllEntries |-> extract_external_links(e.summary)]

AllCandidates == UNION {OutboundLinks[e] : e \in AllEntries}

\* article_title, final_url = res and key = canonical_key(final_url)
Resolved(res) == [article_title |-> res[1], final_url |-> res[2], key |-> canonical_key(res[2])]

\* For every candidate and every answer to its GET: article_title and
\* final_url as fetch_page_title_and_final_url returns them, and
\* key = canonical_key(final_url), computed once
Resolution ==
    [raw_link \in WebSites |->
        [resp \in Web(raw_link) |-> Resolved(fetch_page_title_and_final_url(raw_link, resp))]]

(***************************************************************************)
(* main(): the aggregation, the ordering and the cap, as operators         *)
(***************************************************************************)
\* a < b, d the first position where a and b differ (0: one is a prefix of the other)
StrLessAt(a, b, d) == IF d = 0 THEN Len(a) < Len(b) ELSE Ord(Ch(a, d)) < Ord(Ch(b, d))

\* a < b for str values: code points, then length
StrLess(a, b) ==
    StrLessAt(a, b, MinOrZero({i \in 1..(IF Len(a) < Len(b) THEN Len(a) ELSE Len(b)) : Ch(a, i) # Ch(b, i)}))

RECURSIVE Sorted(_)
\* sorted(S), m the least element of S
SortedFrom(S, m) == <<m>> \o Sorted(S \ {m})

\* sorted(S) for a set of str
Sorted(S) ==
    IF S = {} THEN <<>>
    ELSE SortedFrom(S, CHOOSE x \in S : \A y \in S \ {x} : StrLess(x, y))

fetch_subreddit_rss_unchecked(feed, ok) ==
    IF ok THEN [raised |-> FALSE, entries |-> SubSeq(feed, 1, IF Len(feed) < POST_LIMIT THEN Len(feed) ELSE POST_LIMIT)]
    ELSE [raised |-> FALSE, entries |-> <<>>]

\* fetch_subreddit_rss(subreddit) when the listing request is answered with
\* the feed `feed`, with a 2xx status iff ok.  raised: raise_for_status
\* raised and the exception leaves the function.
fetch_subreddit_rss(feed, ok) ==
    IF ok THEN [raised |-> FALSE, entries |-> SubSeq(feed, 1, IF Len(feed) < POST_LIMIT THEN Len(feed) ELSE POST_LIMIT)]
    ELSE [raised |-> TRUE, entries |-> <<>>]

\* The position of key in the dict items_by_url (kept in insertion order), or 0
IndexOf(tbl, key) ==
    IF \E i \in 1..Len(tbl) : tbl[i].key = key
    THEN CHOOSE i \in 1..Len(tbl) : tbl[i].key = key
    ELSE 0

\* `if not article_title: continue`
SkipCandidate(article_title) == article_title = None \/ article_title = ""

NewItemGuidOfLink(key, article_title, final_url, published, sub, reddit_link, reddit_post_title) ==
    [key |-> key,
     guid |-> sha256_hexdigest(final_url),
     title |-> article_title,
     link |-> final_url,
     published |-> published,
     subs |-> {sub},
     reddit_posts |-> <<<<sub, reddit_link, reddit_post_title>>>>]

\* The item created on the first sight of key (`if key not in items_by_url`)
NewItem(key, article_title, final_url, published, sub, reddit_link, reddit_post_title) ==
    [key |-> key,
     guid |-> sha256_hexdigest(key),
     title |-> article_title,
     link |-> final_url,
     published |-> published,
     subs |-> {sub},
     reddit_posts |-> <<<<sub, reddit_link, reddit_post_title>>>>]

MergeItemNoSub(existing, published, sub, reddit_link, reddit_post_title) ==
    [existing EXCEPT !.reddit_posts = Append(@, <<sub, reddit_link, reddit_post_title>>),
                     !.published = IF published > @ THEN published ELSE @]

MergeItemLastWins(existing, published, sub, reddit_link, reddit_post_title) ==
    [existing EXCEPT !.subs = @ \cup {sub},
                     !.reddit_posts = Append(@, <<sub, reddit_link, reddit_post_title>>),
                     !.published = published]

\* The item after a later sight of its key (the `else` branch): the source
\* and the post are added, the most recent share date is kept
MergeItem(existing, published, sub, reddit_link, reddit_post_title) ==
    [existing EXCEPT !.subs = @ \cup {sub},
                     !.reddit_posts = Append(@, <<sub, reddit_link, reddit_post_title>>),
                     !.published = IF published > @ THEN published ELSE @]

\* "Build or merge an item for this URL": items_by_url after the candidate
\* that resolved to (article_title, final_url), of key `key`, is taken in
MergeCandidate(tbl, key, article_title, final_url, published, sub, reddit_link, reddit_post_title) ==
    LET i == IndexOf(tbl, key)
    IN  IF i = 0
        THEN Append(tbl, NewItem(key, article_title, final_url, published, sub, reddit_link, reddit_post_title))
        ELSE [tbl EXCEPT ![i] = MergeItem(@, published, sub, reddit_link, reddit_post_title)]

SoftCapReachedLate(tbl) == Len(tbl) > MAX_ITEMS * 2

\* The soft guardrail: len(items_by_url) >= MAX_ITEMS * 2
SoftCapReached(tbl) == Len(tbl) >= MAX_ITEMS * 2

\* [f"r/{s}" for s in subs_sorted]
SubNames(subs_sorted) == [i \in 1..Len(subs_sorted) |-> "r/" \o subs_sorted[i]]

\* it["reddit_posts"][:2]
FirstTwo(posts) == SubSeq(posts, 1, IF Len(posts) < 2 THEN Len(posts) ELSE 2)

\* [f"r/{s}: {link}" for s, link, _ in posts]
PostBits(posts) == [i \in 1..Len(posts) |-> "r/" \o posts[i][1] \o ": " \o posts[i][2]]

\* The description of one item: sources, and at most 2 Reddit post references
Description(it) ==
    "Shared on " \o Join(", ", SubNames(Sorted(it.subs)))
        \o " | Reddit posts: " \o Join(" | ", PostBits(FirstTwo(it.reddit_posts)))

\* The list `items` built from items_by_url.items()
ItemList(tbl) ==
    [i \in 1..Len(tbl) |->
        [guid |-> tbl[i].guid, title |-> tbl[i].title, link |-> tbl[i].link,
         published |-> tbl[i].published, description |-> Description(tbl[i])]]

InsertAsc(rest, x) ==
    SelectSeq(rest, LAMBDA y : y.published <= x.published)
        \o <<x>> \o SelectSeq(rest, LAMBDA y : y.published > x.published)

\* x, which followed the items of rest in the list, takes its place in rest:
\* after the items of its time or later, before the earlier ones
InsertDesc(rest, x) ==
    SelectSeq(rest, LAMBDA y : y.published >= x.published)
        \o <<x>> \o SelectSeq(rest, LAMBDA y : y.published < x.published)

RECURSIVE SortByPublishedAsc(_)
SortByPublishedAsc(items) ==
    IF items = <<>> THEN <<>>
    ELSE InsertAsc(SortByPublishedAsc(SubSeq(items, 1, Len(items) - 1)), items[Len(items)])

RECURSIVE SortByPublishedDesc(_)
\* items.sort(key=lambda x: x["published"], reverse=True): a stable sort,
\* items of equal time keep their order
SortByPublishedDesc(items) ==
    IF items = <<>> THEN <<>>
    ELSE InsertDesc(SortByPublishedDesc(SubSeq(items, 1, Len(items) - 1)), items[Len(items)])

\* items[:MAX_ITEMS]
Truncate(items) == SubSeq(items, 1, IF Len(items) < MAX_ITEMS THEN Len(items) ELSE MAX_ITEMS)

(***************************************************************************)
(* Inputs of the URL normalizer: strings assembled from the parts a link   *)
(* captured from a post body can have.                                     *)
(***************************************************************************)
InLead == {"", " "}

InScheme == {"https://", "http://", "HTTP://", "ftp://", ""}

InHost == {"news.example", "Old.Reddit.com"}

InPath == {"", "/", "/a", "/a/"}

InQuery == {"", "?id=7", "?utm_source=x&id=7", "?id=7%2E", "?q=.&fbclid=1", "?q=%29", "?a", "?q=a+b%2f"}

InFragment == {"", "#s/"}

InTrail == {"", ").", ","}

NormInputs ==
    {l \o s \o h \o p \o q \o f \o t :
        l \in InLead, s \in InScheme, h \in InHost, p \in InPath,
        q \in InQuery, f \in InFragment, t \in InTrail}

(***************************************************************************)
(* State                                                                   *)
(***************************************************************************)
VARIABLES
    pc,              \* where main() is: "fetch", "entries", "links", "emit", "done", "failed"
    si,              \* the position in SUBREDDITS of `sub`
    entries,         \* the entries of the listing still to be visited
    cur,             \* reddit_post_title, reddit_link and published of the entry `e`
    outbound_links,  \* the candidates of `e` still to be visited
    items_by_url,    \* the aggregation table, in insertion order
    last,            \* the candidate fetched last and the answer it got
    merged,          \* history: the (key, source, post, time) of every candidate taken in
    fetch_failed,    \* history: a listing fetch raised
    items,           \* the list handed to build_rss
    written,         \* rss.xml has been written
    nraw,            \* the input of the normalizer under test
    nout             \* its successive normalizations

vars == <<pc, si, entries, cur, outbound_links, items_by_url, last, merged, fetch_failed, items, written, nraw, nout>>

pipeline == <<pc, si, entries, cur, outbound_links, items_by_url, last, merged, fetch_failed, items, written>>

NoEntry == [title |-> None, link |-> "", published |-> 0]

NoFetch == [raw |-> None, resp |-> Timeout]

sub == SUBREDDITS[si]

InitPipeline ==
    /\ pc = "fetch"
    /\ si = 1
    /\ entries = <<>>
    /\ cur = NoEntry
    /\ outbound_links = {}
    /\ items_by_url = <<>>
    /\ last = NoFetch
    /\ merged = {}
    /\ fetch_failed = FALSE
    /\ items = <<>>
    /\ written = FALSE

Init == InitPipeline /\ nraw = "" /\ nout = <<>>

(***************************************************************************)
(* main(), step by step                                                    *)
(***************************************************************************)
\* entries = fetch_subreddit_rss(sub): an exception ends the process
FetchListing ==
    /\ pc = "fetch"
    /\ \E feed \in Feeds(si), ok \in BOOLEAN :
         LET r == fetch_subreddit_rss(feed, ok)
         IN  /\ fetch_failed' = (fetch_failed \/ ~ok)
             /\ IF r.raised
                THEN pc' = "failed" /\ entries' = entries
                ELSE pc' = "entries" /\ entries' = r.entries
    /\ UNCHANGED <<si, cur, outbound_links, items_by_url, last, merged, items, written, nraw, nout>>

\* for e in entries: the head of the loop body, up to outbound_links
StartEntry ==
    /\ pc = "entries"
    /\ entries # <<>>
    /\ LET e == Head(entries)
       IN  \E published \in (IF e.published = 0 THEN Times ELSE {e.published}) :
             /\ cur' = [title |-> IF e.title = None THEN "Post from r/" \o sub ELSE e.title,
                        link |-> e.link,
                        published |-> published]
             /\ outbound_links' = OutboundLinks[e]
    /\ entries' = Tail(entries)
    /\ pc' = "links"
    /\ UNCHANGED <<si, items_by_url, last, merged, fetch_failed, items, written, nraw, nout>>

\* The rest of the loop body once raw_link is resolved to r: the skip, or the
\* item is built or merged into tbl and the guardrail is tested
TakeIn(r, tbl) ==
    IF SkipCandidate(r.article_title)
    THEN UNCHANGED <<items_by_url, merged, pc>>
    ELSE /\ items_by_url' = tbl
         /\ merged' = merged \cup {[key |-> r.key, sub |-> sub,
                                    link |-> cur.link, published |-> cur.published]}
         /\ pc' = IF SoftCapReached(tbl) THEN "emit" ELSE "links"

Resolve(raw_link, resp, r) ==
    /\ last' = [raw |-> raw_link, resp |-> resp]
    /\ outbound_links' = outbound_links \ {raw_link}
    /\ TakeIn(r, MergeCandidate(items_by_url, r.key, r.article_title, r.final_url,
                                cur.published, sub, cur.link, cur.title))

\* for raw_link in outbound_links: one pass of the loop body, in whatever
\* order list(set) yields the links
ResolveCandidate ==
    /\ pc = "links"
    /\ outbound_links # {}
    /\ \E raw_link \in outbound_links : \E resp \in Web(raw_link) :
         Resolve(raw_link, resp, Resolution[raw_link][resp])
    /\ UNCHANGED <<si, entries, cur, fetch_failed, items, written, nraw, nout>>

\* the links of `e` are exhausted: the guardrail test after the inner loop
EndEntry ==
    /\ pc = "links"
    /\ outbound_links = {}
    /\ pc' = IF SoftCapReached(items_by_url) THEN "emit" ELSE "entries"
    /\ UNCHANGED <<si, entries, cur, outbound_links, items_by_url, last, merged, fetch_failed, items, written, nraw, nout>>

\* the entries of `sub` are exhausted: the guardrail test after the loop
\* over the entries, then the next source
EndSource ==
    /\ pc = "entries"
    /\ entries = <<>>
    /\ IF SoftCapReached(items_by_url) \/ si = NumSubs
       THEN pc' = "emit" /\ si' = si
       ELSE pc' = "fetch" /\ si' = si + 1
    /\ UNCHANGED <<entries, cur, outbound_links, items_by_url, last, merged, fetch_failed, items, written, nraw, nout>>

\* the list is built, sorted, capped, rendered and written
Emit ==
    /\ pc = "emit"
    /\ items' = Truncate(SortByPublishedDesc(ItemList(items_by_url)))
    /\ written' = TRUE
    /\ pc' = "done"
    /\ UNCHANGED <<si, entries, cur, outbound_links, items_by_url, last, merged, fetch_failed, nraw, nout>>

Next == FetchListing \/ StartEntry \/ ResolveCandidate \/ EndEntry \/ EndSource \/ Emit

Spec == Init /\ [][Next]_vars

(***************************************************************************)
(* The normalizer on its own: an input, normalized and normalized again    *)
(***************************************************************************)
InitNorm == InitPipeline /\ nraw \in NormInputs /\ nout = <<>>

Normalize ==
    /\ Len(nout) < 2
    /\ nout' = Append(nout, normalize_url(IF nout = <<>> THEN nraw ELSE nout[Len(nout)]))
    /\ UNCHANGED <<pipeline, nraw>>

NextNorm == Normalize

SpecNorm == InitNorm /\ [][NextNorm]_vars

(***************************************************************************)
(* Properties                                                              *)
(***************************************************************************)
Tbl == {items_by_url[i] : i \in DOMAIN items_by_url}

Out == {items[i] : i \in DOMAIN items}

\* The candidates taken in so far under key k
MergedFor(k) == {m \in merged : m.key = k}

\* The sources an Output Item names: the "Shared on r/a, r/b" part of its description
NamedSources(o) ==
    LET shared == Split(o.description, " | ")[1]
    IN  Range(Split(Slice(shared, Len("Shared on ") + 1, Len(shared)), ", "))

C2_TimestampIsMax ==
    \A t \in Tbl :
        /\ \E m \in MergedFor(t.key) : m.published = t.published
        /\ \A m \in MergedFor(t.key) : m.published <= t.published

\* C2 witness: one item whose first post is older than a post merged later
\* (the time was advanced) and another whose first post is the newest (the
\* time was kept)
C2_Witness ==
    /\ \E t \in Tbl : \E m1, m2 \in MergedFor(t.key) :
         /\ m1.link = t.reddit_posts[1][2]
         /\ m1.published < m2.published
         /\ t.published = m2.published
    /\ \E t \in Tbl : \E m1, m2 \in MergedFor(t.key) :
         /\ m1.link = t.reddit_posts[1][2]
         /\ m1.published > m2.published
         /\ t.published = m1.published

\* C3: the emitted list is in descending time order; it holds
\* min(len(table), MAX_ITEMS) distinct items of the table; no item left out
\* is more recent than an item kept.
C3_SortedAndCapped ==
    pc = "done" =>
        /\ \A a, b \in DOMAIN items : a < b => items[a].published >= items[b].published
        /\ Len(items) = (IF Len(items_by_url) > MAX_ITEMS THEN MAX_ITEMS ELSE Len(items_by_url))
        /\ \A a, b \in DOMAIN items : items[a].link = items[b].link => a = b
        /\ \A o \in Out : \E t \in Tbl :
             t.link = o.link /\ t.published = o.published /\ t.guid = o.guid /\ t.title = o.title
        /\ \A t \in Tbl : (\A o \in Out : o.link # t.link) =>
             \A o \in Out : t.published <= o.published

\* C3 witness: more items than the cap, held by the table in an order that is
\* not descending, and an item left out that is strictly older than one kept
C3_Witness ==
    /\ pc = "done"
    /\ Len(items_by_url) > MAX_ITEMS
    /\ \E i, j \in DOMAIN items_by_url : i < j /\ items_by_url[i].published < items_by_url[j].published
    /\ \E t \in Tbl : (\A o \in Out : o.link # t.link) /\ (\E o \in Out : t.published < o.published)

\* C4: the identifier of every item of the table, and of every emitted item,
\* is the digest of its canonical key, whichever source, post or raw link
\* created the item and whatever was merged into it since.
C4_GuidOfKey ==
    /\ \A t \in Tbl : t.guid = sha256_hexdigest(t.key)
    /\ \A o \in Out : \E t \in Tbl : t.link = o.link /\ o.guid = sha256_hexdigest(t.key)

\* C4 witness: an item first surfaced by the second source whose link is not
\* its key, beside an item that was created and then merged into
C4_Witness ==
    /\ \E t \in Tbl : t.reddit_posts[1][1] = SUBREDDITS[2] /\ t.link # t.key
    /\ \E t \in Tbl : Len(t.reddit_posts) >= 2 /\ Cardinality(t.subs) = 2

\* Every final_url a title fetch of the world can return
AllFinalUrls == UNION {{Resolution[u][r].final_url : r \in Web(u)} : u \in AllCandidates}

\* The host of url is one of the platform's known domains or a subdomain of one
OwnPlatformHost(url) ==
    LET host == Lower(urlparse(url).netloc)
    IN  \E d \in REDDIT_HOSTS : host = d \/ EndsWith(host, "." \o d)

OwnPlatformUrls == {u \in AllFinalUrls : OwnPlatformHost(u)}

\* C5: no item of the table and no emitted item has a link whose host is an
\* own-platform host.
C5_NoOwnPlatformLink ==
    /\ \A t \in Tbl : t.link \notin OwnPlatformUrls
    /\ \A o \in Out : o.link \notin OwnPlatformUrls

\* C6: normalizing a normalized URL changes nothing.
C6_NormalizeIdempotent == Len(nout) = 2 => nout[2] = nout[1]

\* a and b differ only by one trailing slash of the path of a
SlashTwins(a, b) ==
    LET pa == urlparse(a)
        pb == urlparse(b)
    IN  /\ pa.path = pb.path \o "/"
        /\ pa.scheme = pb.scheme /\ pa.netloc = pb.netloc /\ pa.params = pb.params
        /\ pa.query = pb.query /\ pa.fragment = pb.fragment

SlashTwinPairs == {p \in AllFinalUrls \X AllFinalUrls : SlashTwins(p[1], p[2])}

\* C7: two resolved URLs that differ only by one trailing path slash are
\* merged into one item: the table never holds both.
C7_SlashTwinsMerged ==
    \A t1, t2 \in Tbl : <<t1.link, t2.link>> \notin SlashTwinPairs

AllResponses == UNION {Web(u) : u \in AllCandidates}

\* The title a page offers: the first of og:title, twitter:title and <title>
\* that is not empty once cleaned
OfferedTitle(resp) ==
    LET T == <<resp.og, resp.tw, resp.tt>>
        I == {i \in 1..3 : T[i] # None /\ clean_title(T[i]) # ""}
    IN  IF I = {} THEN "" ELSE clean_title(T[SetMin(I)])

\* A failed or rejected resolution: network error or timeout, non-2xx status,
\* non-HTML content, missing, too short or junk title
FailedResolution(resp) ==
    \/ resp.kind \in {"timeout", "http_error"}
    \/ resp.ctype # "" /\ ~Contains(Lower(resp.ctype), "text/html")
    \/ OfferedTitle(resp) = ""
    \/ Len(OfferedTitle(resp)) < 12
    \/ \E pat \in JUNK_TITLE_PATTERNS : Contains(Lower(OfferedTitle(resp)), pat)

FailedResponses == {r \in AllResponses : FailedResolution(r)}

\* C8: the step that handles a candidate whose resolution failed or was
\* rejected leaves the table, the emitted list and the position in the
\* sources and entries as they are and stays in the loop over the links of
\* the post, with that candidate removed.
C8_FailureIsLocal ==
    [][(pc = "links" /\ outbound_links # {} /\ last'.resp \in FailedResponses) =>
          /\ items_by_url' = items_by_url
          /\ merged' = merged
          /\ pc' = "links"
          /\ outbound_links' = outbound_links \ {last'.raw}
          /\ <<si, entries, cur, items, written, fetch_failed>>' = <<si, entries, cur, items, written, fetch_failed>>]_vars

\* C8 witness: the run ended and wrote a non-empty feed although the
\* resolution of the last candidate fetched was rejected
C8_Witness ==
    /\ pc = "done" /\ written /\ items # <<>>
    /\ last.raw # None /\ last.resp \in FailedResponses

\* C9: once a listing fetch has failed the process is dead: nothing changes
\* any more, the artifact is not written, and the failure is the step that
\* ended the run; an artifact is written only when no listing fetch failed.
C9_ListingFailureIsFatal ==
    [][/\ ~fetch_failed
       /\ fetch_failed' => (pc' = "failed" /\ ~written' /\ items' = <<>>
                              /\ items_by_url' = items_by_url /\ last' = last /\ si' = si)
       /\ written' => ~fetch_failed']_vars

\* C9 witness: the listing of the second source failed after candidates of
\* the first had been taken in; nothing was written
C9_Witness == fetch_failed /\ pc = "failed" /\ si = 2 /\ items_by_url # <<>> /\ ~written

\* C10: the table never holds more than 2 * MAX_ITEMS keys, and from a
\* state in which it holds that many the only step is the one that sorts,
\* caps and emits: no candidate is fetched, created or merged and no listing
\* is fetched.
C10_SoftCap ==
    [][/\ Len(items_by_url') <= MAX_ITEMS * 2
       /\ Len(items_by_url) >= MAX_ITEMS * 2 =>
            /\ pc = "emit" /\ pc' = "done"
            /\ items_by_url' = items_by_url /\ merged' = merged /\ last' = last
            /\ <<si, entries, outbound_links>>' = <<si, entries, outbound_links>>]_vars

\* C10 witness: the table reached 2 * MAX_ITEMS keys with links, entries or
\* sources still to be visited, and the run went on to emit
C10_Witness ==
    /\ pc = "done"
    /\ Len(items_by_url) = MAX_ITEMS * 2
    /\ (outbound_links # {} \/ entries # <<>> \/ si < NumSubs)

====
